---------------------------- MODULE Spec2Model ----------------------------
(***************************************************************************)
(* Verification model of models/LF_trainingv2.py: the tokenization cache,  *)
(* the dataset adapter, the class-weight estimator, the metrics function,  *)
(* the checkpoint loader and the configured training run.                  *)
(***************************************************************************)
EXTENDS Integers, Sequences, FiniteSets, TLC

VARIABLES
    \* ---- tokenize_with_cache (lines 32-56) ----
    fs,              \* the files at the cache paths: [exists, data]
    pc,              \* position of the running call
    texts,           \* argument texts
    cache_path,      \* argument cache_path
    i,               \* number of texts the loop has consumed
    input_ids,       \* local list input_ids
    attention_mask,  \* local list attention_mask
    ret,             \* value returned by the call
    tok_calls,       \* tokenizer invocations made by the running call
    fs_entry,        \* the file at cache_path when the call was entered
    prev,            \* how the previous call on record ended
    \* ---- the script, lines 19-26 and 58-78 ----
    s_pc,            \* position of the running script
    train_texts, val_texts, train_labels, val_labels,
    train_encodings, val_encodings,
    train_dataset, val_dataset,
    fetched,         \* what the last indexed access to a dataset gave
    \* ---- class weights, lines 80-82 ----
    w_pc, class_weights,
    \* ---- compute_metrics, lines 139-144 ----
    m_pc, predictions, label_ids, metrics,
    \* ---- checkpoint loader, lines 107-117 ----
    k_pc,            \* position in lines 109-117
    disk,            \* the checkpoint directory: [exists, files, weights, num_labels]
    disk_entry,      \* the directory as the loader found it
    cuda_available,  \* whether an accelerator is there
    model,           \* [weights, num_labels, gradient_checkpointing, device]
    \* ---- trainer.train(), lines 120-159 ----
    t_pc, epoch, eval_history, best_metric, best_epoch, patience_counter,
    should_training_stop, saved, best_model_checkpoint, final_model

cacheVars == <<pc, texts, cache_path, i, input_ids, attention_mask,
               ret, tok_calls, fs_entry, prev>>

scriptVars == <<s_pc, train_texts, val_texts, train_labels, val_labels,
                train_encodings, val_encodings, train_dataset, val_dataset, fetched>>

weightVars == <<w_pc, class_weights>>

metricVars == <<m_pc, predictions, label_ids, metrics>>

ckptVars == <<k_pc, disk, disk_entry, cuda_available, model>>

trainVars == <<t_pc, epoch, eval_history, best_metric, best_epoch, patience_counter,
               should_training_stop, saved, best_model_checkpoint, final_model>>

vars == <<fs, cacheVars, scriptVars, weightVars, metricVars, ckptVars, trainVars>>

notCacheVars  == <<scriptVars, weightVars, metricVars, ckptVars, trainVars>>
notScriptVars == <<cacheVars, weightVars, metricVars, ckptVars, trainVars>>
notWeightVars == <<fs, cacheVars, scriptVars, metricVars, ckptVars, trainVars>>
notMetricVars == <<fs, cacheVars, scriptVars, weightVars, ckptVars, trainVars>>
notCkptVars   == <<fs, cacheVars, scriptVars, weightVars, metricVars, trainVars>>
notTrainVars  == <<fs, cacheVars, scriptVars, weightVars, metricVars, ckptVars>>

-----------------------------------------------------------------------------
(* Bounds *)
MaxLength  == 3     \* stands for max_length = 1024
MaxTexts   == 2     \* most texts in one call
MaxRows    == 3     \* most rows of the CSV in one run of the script
MaxItems   == 2     \* most items of a dataset built on its own
MaxTrainLabels == 4 \* most training labels given to the class-weight estimator
MaxValLabels   == 1 \* most validation labels beside them
MaxEval        == 2 \* most examples in one evaluation
MaxCorrect     == 2 \* size of the evaluation set behind an epoch's accuracy

-----------------------------------------------------------------------------
(* Helpers *)
Min(a, b) == IF a < b THEN a ELSE b

RECURSIVE Flatten(_)
Flatten(ss) == IF ss = <<>> THEN <<>> ELSE Head(ss) \o Flatten(Tail(ss))

SeqsUpTo(S, n) == UNION {[1..k -> S] : k \in 0..n}

-----------------------------------------------------------------------------
(* The tokenizer, as called at lines 39-44 *)
max_length == MaxLength

\* texts that need padding, and one that needs truncation
TextSet == {<<>>, <<1>>, [k \in 1..max_length |-> 1]}

BOS == 0
PAD == 1
EOS == 2

\* a character's token id: ids 0..2 are the special tokens
TokenId(c) == c + 2

\* tokenizer(text, truncation=True, padding='max_length', max_length=max_length)
tokenizer(text) ==
    LET keep == Min(Len(text), max_length - 2)
        body == [k \in 1..keep |-> TokenId(text[k])]
        ids  == <<BOS>> \o body \o <<EOS>>
        pad  == max_length - Len(ids)
    IN  [input_ids      |-> ids \o [k \in 1..pad |-> PAD],
         attention_mask |-> [k \in 1..Len(ids) |-> 1] \o [k \in 1..pad |-> 0]]

-----------------------------------------------------------------------------
(* pickle.dump / pickle.load of the encodings mapping *)
PROTO == 128
STOP  == 46

PickleList(ll) == <<Len(ll)>> \o Flatten([k \in 1..Len(ll) |-> <<Len(ll[k])>> \o ll[k]])

\* pickle.dump(encodings, f): the bytes written
Pickle(enc) ==
    <<PROTO>> \o PickleList(enc.input_ids) \o PickleList(enc.attention_mask) \o <<STOP>>

ParseFail == [ok |-> FALSE, val |-> <<>>, next |-> 0]

RECURSIVE ParseItems(_, _, _)
ParseItems(b, pos, n) ==
    IF n = 0 THEN [ok |-> TRUE, val |-> <<>>, next |-> pos]
    ELSE IF pos > Len(b) THEN ParseFail
    ELSE IF pos + b[pos] > Len(b) THEN ParseFail
    ELSE LET item == SubSeq(b, pos + 1, pos + b[pos])
             rest == ParseItems(b, pos + b[pos] + 1, n - 1)
         IN  IF rest.ok
             THEN [ok |-> TRUE, val |-> <<item>> \o rest.val, next |-> rest.next]
             ELSE ParseFail

ParseList(b, pos) ==
    IF pos > Len(b) THEN ParseFail ELSE ParseItems(b, pos + 1, b[pos])

NoEncodings == [input_ids |-> <<>>, attention_mask |-> <<>>]

\* pickle.load(f): ok = FALSE stands for the UnpicklingError / EOFError raised
Unpickle(b) ==
    IF Len(b) = 0 \/ b[1] # PROTO THEN [ok |-> FALSE, val |-> NoEncodings]
    ELSE LET a == ParseList(b, 2)
             m == IF a.ok THEN ParseList(b, a.next) ELSE ParseFail
         IN  IF m.ok /\ m.next <= Len(b) /\ b[m.next] = STOP
             THEN [ok |-> TRUE,
                   val |-> [input_ids |-> a.val, attention_mask |-> m.val]]
             ELSE [ok |-> FALSE, val |-> NoEncodings]

-----------------------------------------------------------------------------
(* The file system at the cache paths *)
Paths == {"train_longformer.pkl", "val_longformer.pkl"}

\* the path the function is exercised at, call after call
CallPaths == {"train_longformer.pkl"}

NoFile == [exists |-> FALSE, data |-> <<>>]
File(bytes) == [exists |-> TRUE, data |-> bytes]

\* (mutant) existence alone gates reuse
CacheHitExists(f) == f.exists

\* os.path.exists(cache_path) and os.path.getsize(cache_path) > 0
CacheHit(f) == f.exists /\ Len(f.data) > 0

NoPrev == [kind |-> "none", ret |-> NoEncodings]

NoItem == [split |-> "", idx |-> 0, ok |-> FALSE,
           input_ids |-> <<>>, attention_mask |-> <<>>, labels |-> 0]
NoDataset == [encodings |-> NoEncodings, labels |-> <<>>]

CacheIdle ==
    /\ pc = "idle"
    /\ texts = <<>>
    /\ cache_path = ""
    /\ i = 0
    /\ input_ids = <<>>
    /\ attention_mask = <<>>
    /\ ret = NoEncodings
    /\ tok_calls = 0
    /\ fs_entry = NoFile
    /\ prev = NoPrev

ScriptIdle ==
    /\ s_pc = "start"
    /\ train_texts = <<>>
    /\ val_texts = <<>>
    /\ train_labels = <<>>
    /\ val_labels = <<>>
    /\ train_encodings = NoEncodings
    /\ val_encodings = NoEncodings
    /\ train_dataset = NoDataset
    /\ val_dataset = NoDataset
    /\ fetched = NoItem

NoMetrics == [accuracy |-> <<0, 1>>, f1 |-> <<0, 1>>]
NoDisk == [exists |-> FALSE, files |-> {}, weights |-> "", num_labels |-> 0]
NoModel == [weights |-> "", num_labels |-> 0, gradient_checkpointing |-> FALSE,
            device |-> "cpu"]

WeightsIdle ==
    /\ w_pc = "start"
    /\ class_weights = <<>>

MetricsIdle ==
    /\ m_pc = "start"
    /\ predictions = <<>>
    /\ label_ids = <<>>
    /\ metrics = NoMetrics

CkptIdle ==
    /\ k_pc = "start"
    /\ disk = NoDisk
    /\ disk_entry = NoDisk
    /\ cuda_available = TRUE
    /\ model = NoModel

TrainIdle ==
    /\ t_pc = "start"
    /\ epoch = 0
    /\ eval_history = <<>>
    /\ best_metric = -1
    /\ best_epoch = 0
    /\ patience_counter = 0
    /\ should_training_stop = FALSE
    /\ saved = {}
    /\ best_model_checkpoint = 0
    /\ final_model = 0

InitCache ==
    /\ fs = [p \in Paths |-> NoFile]
    /\ CacheIdle
    /\ ScriptIdle
    /\ WeightsIdle /\ MetricsIdle /\ CkptIdle /\ TrainIdle

\* what the call entered with (t, p) remembers of the call that just ended:
\* "repeat" when that call started with no file at p and returned for the same
\* texts and path, "after_crash" when it died inside the loop on the same path
Outcome(t, p) ==
    IF pc = "returned" /\ ~fs_entry.exists /\ t = texts /\ p = cache_path
    THEN [kind |-> "repeat", ret |-> ret]
    ELSE IF pc = "crashed_tokenizing" /\ p = cache_path
    THEN [kind |-> "after_crash", ret |-> NoEncodings]
    ELSE NoPrev

\* tokenize_with_cache(texts, tokenizer, max_length, cache_path) is entered
Call ==
    /\ pc \in {"idle", "returned", "raised", "crashed_tokenizing", "crashed_dumping"}
    /\ \E t \in SeqsUpTo(TextSet, MaxTexts), p \in CallPaths :
          /\ texts' = t
          /\ cache_path' = p
          /\ fs_entry' = fs[p]
          /\ prev' = Outcome(t, p)
    /\ pc' = "check"
    /\ i' = 0
    /\ input_ids' = <<>>
    /\ attention_mask' = <<>>
    /\ ret' = NoEncodings
    /\ tok_calls' = 0
    /\ UNCHANGED fs
    /\ UNCHANGED notCacheVars

\* line 33, taken: lines 34-35
LoadCache ==
    /\ pc = "check"
    /\ CacheHit(fs[cache_path])
    /\ LET u == Unpickle(fs[cache_path].data)
       IN  /\ pc' = IF u.ok THEN "returned" ELSE "raised"
           /\ ret' = u.val
    /\ UNCHANGED <<fs, texts, cache_path, i, input_ids, attention_mask,
                   tok_calls, fs_entry, prev>>
    /\ UNCHANGED notCacheVars

\* line 33, not taken: line 37
StartLoop ==
    /\ pc = "check"
    /\ ~CacheHit(fs[cache_path])
    /\ pc' = "loop"
    /\ input_ids' = <<>>
    /\ attention_mask' = <<>>
    /\ i' = 0
    /\ UNCHANGED <<fs, texts, cache_path, ret, tok_calls, fs_entry, prev>>
    /\ UNCHANGED notCacheVars

\* (mutant) every text is tokenized but the newest encoding is put first
TokenizeOnePrepending ==
    /\ pc = "loop"
    /\ i < Len(texts)
    /\ LET encoding == tokenizer(texts[i + 1])
       IN  /\ input_ids' = <<encoding.input_ids>> \o input_ids
           /\ attention_mask' = <<encoding.attention_mask>> \o attention_mask
    /\ tok_calls' = tok_calls + 1
    /\ i' = i + 1
    /\ UNCHANGED <<fs, pc, texts, cache_path, ret, fs_entry, prev>>
    /\ UNCHANGED notCacheVars

\* (mutant) the loop saves what it has so far after every text
TokenizeOneSaving ==
    /\ pc = "loop"
    /\ i < Len(texts)
    /\ LET encoding == tokenizer(texts[i + 1])
       IN  /\ input_ids' = Append(input_ids, encoding.input_ids)
           /\ attention_mask' = Append(attention_mask, encoding.attention_mask)
    /\ fs' = [fs EXCEPT ![cache_path] =
                 File(Pickle([input_ids |-> input_ids', attention_mask |-> attention_mask']))]
    /\ tok_calls' = tok_calls + 1
    /\ i' = i + 1
    /\ UNCHANGED <<pc, texts, cache_path, ret, fs_entry, prev>>
    /\ UNCHANGED notCacheVars

\* one iteration of the loop, lines 38-51
TokenizeOne ==
    /\ pc = "loop"
    /\ i < Len(texts)
    /\ LET encoding == tokenizer(texts[i + 1])
       IN  /\ input_ids' = Append(input_ids, encoding.input_ids)
           /\ attention_mask' = Append(attention_mask, encoding.attention_mask)
    /\ tok_calls' = tok_calls + 1
    /\ i' = i + 1
    /\ UNCHANGED <<fs, pc, texts, cache_path, ret, fs_entry, prev>>
    /\ UNCHANGED notCacheVars

\* the process dies inside the loop (out of memory, interrupt, tokenizer error)
CrashTokenizing ==
    /\ pc = "loop"
    /\ pc' = "crashed_tokenizing"
    /\ UNCHANGED <<fs, texts, cache_path, i, input_ids, attention_mask, ret,
                   tok_calls, fs_entry, prev>>
    /\ UNCHANGED notCacheVars

\* loop exhausted; line 54: open(cache_path, "wb") creates or truncates the file
OpenCache ==
    /\ pc = "loop"
    /\ i = Len(texts)
    /\ fs' = [fs EXCEPT ![cache_path] = File(<<>>)]
    /\ pc' = "dump"
    /\ UNCHANGED <<texts, cache_path, i, input_ids, attention_mask, ret,
                   tok_calls, fs_entry, prev>>
    /\ UNCHANGED notCacheVars

\* (mutant) only the token ids reach the file
DumpInputIdsOnly ==
    /\ pc = "dump"
    /\ LET encodings == [input_ids |-> input_ids, attention_mask |-> attention_mask]
       IN  /\ fs' = [fs EXCEPT ![cache_path] =
                        File(Pickle([encodings EXCEPT !.attention_mask = <<>>]))]
           /\ ret' = encodings
    /\ pc' = "returned"
    /\ UNCHANGED <<texts, cache_path, i, input_ids, attention_mask,
                   tok_calls, fs_entry, prev>>
    /\ UNCHANGED notCacheVars

\* lines 53, 55-56: the mapping is written and returned
DumpAndReturn ==
    /\ pc = "dump"
    /\ LET encodings == [input_ids |-> input_ids, attention_mask |-> attention_mask]
       IN  /\ fs' = [fs EXCEPT ![cache_path] = File(Pickle(encodings))]
           /\ ret' = encodings
    /\ pc' = "returned"
    /\ UNCHANGED <<texts, cache_path, i, input_ids, attention_mask,
                   tok_calls, fs_entry, prev>>
    /\ UNCHANGED notCacheVars

\* the process dies inside pickle.dump: some proper prefix of the bytes is on disk
CrashDumping ==
    /\ pc = "dump"
    /\ LET bytes == Pickle([input_ids |-> input_ids, attention_mask |-> attention_mask])
       IN  \E k \in 0..(Len(bytes) - 1) :
              fs' = [fs EXCEPT ![cache_path] = File(SubSeq(bytes, 1, k))]
    /\ pc' = "crashed_dumping"
    /\ UNCHANGED <<texts, cache_path, i, input_ids, attention_mask, ret,
                   tok_calls, fs_entry, prev>>
    /\ UNCHANGED notCacheVars

NextCache ==
    \/ Call
    \/ LoadCache
    \/ StartLoop
    \/ TokenizeOne
    \/ CrashTokenizing
    \/ OpenCache
    \/ DumpAndReturn
    \/ CrashDumping

SpecCache == InitCache /\ [][NextCache]_vars

-----------------------------------------------------------------------------
(* Claims about tokenize_with_cache, checked under SpecCache *)

\* what tokenizing every text of ts in order gives
TokenizeAll(ts) ==
    [input_ids      |-> [k \in 1..Len(ts) |-> tokenizer(ts[k]).input_ids],
     attention_mask |-> [k \in 1..Len(ts) |-> tokenizer(ts[k]).attention_mask]]

\* the file found at cache_path when the call was entered
EntryNonEmpty == fs_entry.exists /\ Len(fs_entry.data) > 0
EntryEmpty    == fs_entry.exists /\ Len(fs_entry.data) = 0

\* the frame of a cache hit: no tokenizer call so far and the file untouched
HitFrame == tok_calls = 0 /\ fs[cache_path] = fs_entry

\* a call that finds an existing file of size 0 tokenizes and overwrites it
EmptyFileIsMiss ==
    (EntryEmpty /\ pc \notin {"idle", "check"})
        => /\ pc # "raised"
           /\ pc = "returned" => /\ tok_calls = Len(texts)
                                 /\ ret = TokenizeAll(texts)
                                 /\ fs[cache_path] = File(Pickle(ret))

\* C1 as stated: whenever the file at cache_path exists with size > 0 at the call,
\* the call returns the deserialized content of the file, without a tokenizer
\* call and without changing the file; a file of size 0 is a miss.
C1_Original ==
    /\ (EntryNonEmpty /\ pc \notin {"idle", "check"})
          => /\ pc = "returned"
             /\ fs_entry.data = Pickle(ret)
             /\ HitFrame
    /\ EmptyFileIsMiss

\* C1 amended: whenever the file at cache_path exists with size > 0 at the call,
\* the call never invokes the tokenizer and never changes the file, for every
\* texts argument; it returns exactly the deserialized content when the bytes
\* are a complete serialization and raises the deserialization error when they
\* are a truncated one; a file of size 0 is a miss (texts tokenized, file
\* overwritten).
C1_CacheHitFrame ==
    /\ (EntryNonEmpty /\ pc # "idle")
          => /\ HitFrame
             /\ pc \in {"check", "returned", "raised"}
             /\ pc = "returned" => fs_entry.data = Pickle(ret)
             /\ pc = "raised" =>
                   \E ts \in SeqsUpTo(TextSet, MaxTexts) :
                       LET whole == Pickle(TokenizeAll(ts))
                       IN  /\ Len(fs_entry.data) < Len(whole)
                           /\ fs_entry.data = SubSeq(whole, 1, Len(fs_entry.data))
    /\ EmptyFileIsMiss

\* a hit that serves encodings of other texts than the ones passed in
C1_Witness ==
    /\ pc = "returned"
    /\ EntryNonEmpty
    /\ Len(texts) = 2
    /\ ret # TokenizeAll(texts)
    /\ tok_calls = 0

\* C2: starting with no cache file, the second of two calls in sequence with the
\* same texts and cache_path returns a value equal to the first call's result,
\* invokes the tokenizer zero times and leaves the file's content as it was.
C2_Idempotent ==
    (prev.kind = "repeat" /\ pc # "check")
        => /\ pc = "returned"
           /\ ret = prev.ret
           /\ tok_calls = 0
           /\ fs[cache_path] = fs_entry

C2_Witness ==
    /\ prev.kind = "repeat"
    /\ pc = "returned"
    /\ Len(texts) = 2
    /\ texts[1] # texts[2]

\* C3: on a cache miss the call returns a mapping with exactly the keys
\* input_ids and attention_mask, parallel lists with one entry per text in the
\* order of texts, every entry of length max_length, and that mapping is what
\* cache_path holds when the call returns.
C3_MissResult ==
    (pc = "returned" /\ ~EntryNonEmpty)
        => /\ DOMAIN ret = {"input_ids", "attention_mask"}
           /\ Len(ret.input_ids) = Len(texts)
           /\ Len(ret.attention_mask) = Len(texts)
           /\ \A k \in 1..Len(texts) :
                 /\ ret.input_ids[k] = tokenizer(texts[k]).input_ids
                 /\ ret.attention_mask[k] = tokenizer(texts[k]).attention_mask
                 /\ Len(ret.input_ids[k]) = max_length
                 /\ Len(ret.attention_mask[k]) = max_length
           /\ fs[cache_path] = File(Pickle(ret))
           /\ Unpickle(fs[cache_path].data) = [ok |-> TRUE, val |-> ret]

C3_Witness ==
    /\ pc = "returned"
    /\ ~EntryNonEmpty
    /\ Len(texts) = 2
    /\ texts[1] # texts[2]

\* C4 as stated: after a crash inside the tokenization loop no file exists at
\* cache_path.
C4_Original ==
    pc = "crashed_tokenizing" => ~fs[cache_path].exists

\* C4 amended: after a crash inside the tokenization loop the file at
\* cache_path is as it was before the call, absent or of size 0, and the next
\* call with that path is a miss that tokenizes every text from the first one.
C4_NoPartialCache ==
    /\ pc = "crashed_tokenizing"
          => (fs[cache_path] = fs_entry /\ ~EntryNonEmpty)
    /\ (prev.kind = "after_crash" /\ pc # "check")
          => /\ ~EntryNonEmpty
             /\ pc # "raised"
             /\ pc \in {"loop", "crashed_tokenizing"} =>
                   (tok_calls = i /\ Len(input_ids) = i
                      /\ \A k \in 1..i : input_ids[k] = tokenizer(texts[k]).input_ids)
             /\ pc = "returned" => (tok_calls = Len(texts) /\ ret = TokenizeAll(texts))

\* a crash after some texts were tokenized, with an empty file already there
C4_Witness ==
    /\ pc = "crashed_tokenizing"
    /\ i >= 1
    /\ i < Len(texts)
    /\ fs_entry.exists


-----------------------------------------------------------------------------
(* The script: data loading and split (19-26), the two cached tokenizations *)
(* (58-59) and the dataset adapter (62-78), run after run on the same disk  *)
Labels == {-1, 0, 1}

\* the texts a CSV row may hold here: one padded, one truncated
RowTexts == {<<>>, [k \in 1..max_length |-> 1]}

\* the loop of lines 37-51 run to its end
RECURSIVE TokenizeLoop(_, _, _, _)
TokenizeLoop(ts, k, ids, mask) ==
    IF k > Len(ts) THEN [input_ids |-> ids, attention_mask |-> mask]
    ELSE LET encoding == tokenizer(ts[k])
         IN  TokenizeLoop(ts, k + 1, Append(ids, encoding.input_ids),
                          Append(mask, encoding.attention_mask))

\* tokenize_with_cache(ts, tokenizer, max_length, path) run to its end on file f:
\* whether it raised, what it returned and what it left at the path
tokenize_with_cache(ts, f) ==
    IF CacheHit(f)
    THEN LET u == Unpickle(f.data)
         IN  [raised |-> ~u.ok, ret |-> u.val, file |-> f]
    ELSE LET encodings == TokenizeLoop(ts, 1, <<>>, <<>>)
         IN  [raised |-> FALSE, ret |-> encodings, file |-> File(Pickle(encodings))]

\* NewsDataset.__init__
NewsDataset(encodings, labels) == [encodings |-> encodings, labels |-> labels]

\* NewsDataset.__len__
NewsDataset_len(ds) == Len(ds.labels)

\* (mutant) the label is handed out as stored
NewsDataset_getitem_unshifted(ds, idx) ==
    IF /\ idx < Len(ds.encodings.input_ids)
       /\ idx < Len(ds.encodings.attention_mask)
       /\ idx < Len(ds.labels)
    THEN [ok |-> TRUE,
          input_ids      |-> ds.encodings.input_ids[idx + 1],
          attention_mask |-> ds.encodings.attention_mask[idx + 1],
          labels         |-> ds.labels[idx + 1]]
    ELSE [ok |-> FALSE, input_ids |-> <<>>, attention_mask |-> <<>>, labels |-> 0]

\* NewsDataset.__getitem__(idx), idx counted from 0; ok = FALSE is the IndexError
NewsDataset_getitem(ds, idx) ==
    IF /\ idx < Len(ds.encodings.input_ids)
       /\ idx < Len(ds.encodings.attention_mask)
       /\ idx < Len(ds.labels)
    THEN [ok |-> TRUE,
          input_ids      |-> ds.encodings.input_ids[idx + 1],
          attention_mask |-> ds.encodings.attention_mask[idx + 1],
          labels         |-> ds.labels[idx + 1] + 1]
    ELSE [ok |-> FALSE, input_ids |-> <<>>, attention_mask |-> <<>>, labels |-> 0]

\* compute_metrics: labels = pred.label_ids - 1
ShiftBack(label_id) == label_id - 1

InitScript ==
    /\ fs = [p \in Paths |-> NoFile]
    /\ CacheIdle
    /\ ScriptIdle
    /\ WeightsIdle /\ MetricsIdle /\ CkptIdle /\ TrainIdle

\* lines 19-26: the CSV is read and split into two non-empty parts; texts and
\* labels stay paired
LoadData ==
    /\ s_pc = "start"
    /\ \E n \in 1..MaxRows, m \in 1..MaxRows :
          /\ n + m <= MaxRows
          /\ train_texts' \in [1..n -> RowTexts]
          /\ train_labels' \in [1..n -> Labels]
          /\ val_texts' \in [1..m -> RowTexts]
          /\ val_labels' \in [1..m -> Labels]
    /\ s_pc' = "tokenize_train"
    /\ UNCHANGED <<fs, train_encodings, val_encodings, train_dataset, val_dataset,
                   fetched>>
    /\ UNCHANGED notScriptVars

\* line 58
TokenizeTrain ==
    /\ s_pc = "tokenize_train"
    /\ LET r == tokenize_with_cache(train_texts, fs["train_longformer.pkl"])
       IN  /\ fs' = [fs EXCEPT !["train_longformer.pkl"] = r.file]
           /\ train_encodings' = r.ret
           /\ s_pc' = IF r.raised THEN "failed" ELSE "tokenize_val"
    /\ UNCHANGED <<train_texts, val_texts, train_labels, val_labels, val_encodings,
                   train_dataset, val_dataset, fetched>>
    /\ UNCHANGED notScriptVars

\* line 59
TokenizeVal ==
    /\ s_pc = "tokenize_val"
    /\ LET r == tokenize_with_cache(val_texts, fs["val_longformer.pkl"])
       IN  /\ fs' = [fs EXCEPT !["val_longformer.pkl"] = r.file]
           /\ val_encodings' = r.ret
           /\ s_pc' = IF r.raised THEN "failed" ELSE "datasets"
    /\ UNCHANGED <<train_texts, val_texts, train_labels, val_labels, train_encodings,
                   train_dataset, val_dataset, fetched>>
    /\ UNCHANGED notScriptVars

\* lines 77-78
BuildDatasets ==
    /\ s_pc = "datasets"
    /\ train_dataset' = NewsDataset(train_encodings, train_labels)
    /\ val_dataset' = NewsDataset(val_encodings, val_labels)
    /\ s_pc' = "ready"
    /\ UNCHANGED <<fs, train_texts, val_texts, train_labels, val_labels,
                   train_encodings, val_encodings, fetched>>
    /\ UNCHANGED notScriptVars

\* the trainer fetches item idx of a dataset, idx in range(len(dataset));
\* an IndexError ends the run
GetItem ==
    /\ s_pc = "ready"
    /\ \E split \in {"train", "val"} :
          LET ds == IF split = "train" THEN train_dataset ELSE val_dataset
          IN  \E idx \in 0..(NewsDataset_len(ds) - 1) :
                 LET r == NewsDataset_getitem(ds, idx)
                 IN  /\ fetched' = [split |-> split, idx |-> idx, ok |-> r.ok,
                                    input_ids |-> r.input_ids,
                                    attention_mask |-> r.attention_mask,
                                    labels |-> r.labels]
                     /\ s_pc' = IF r.ok THEN "ready" ELSE "failed"
    /\ UNCHANGED <<fs, train_texts, val_texts, train_labels, val_labels,
                   train_encodings, val_encodings, train_dataset, val_dataset>>
    /\ UNCHANGED notScriptVars

\* the script is run again; only the disk is carried over
RunAgain ==
    /\ s_pc \in {"ready", "failed"}
    /\ s_pc' = "start"
    /\ train_texts' = <<>>
    /\ val_texts' = <<>>
    /\ train_labels' = <<>>
    /\ val_labels' = <<>>
    /\ train_encodings' = NoEncodings
    /\ val_encodings' = NoEncodings
    /\ train_dataset' = NoDataset
    /\ val_dataset' = NoDataset
    /\ fetched' = NoItem
    /\ UNCHANGED fs
    /\ UNCHANGED notScriptVars

NextScript ==
    \/ LoadData
    \/ TokenizeTrain
    \/ TokenizeVal
    \/ BuildDatasets
    \/ GetItem
    \/ RunAgain

SpecScript == InitScript /\ [][NextScript]_vars

\* a NewsDataset built from any encodings and any labels in {-1,0,1}, then read
InitDataset ==
    /\ fs = [p \in Paths |-> NoFile]
    /\ CacheIdle
    /\ s_pc = "ready"
    /\ train_texts \in SeqsUpTo(RowTexts, MaxItems)
    /\ train_labels \in SeqsUpTo(Labels, MaxItems)
    /\ train_encodings = TokenizeLoop(train_texts, 1, <<>>, <<>>)
    /\ train_dataset = NewsDataset(train_encodings, train_labels)
    /\ val_texts = <<>>
    /\ val_labels = <<>>
    /\ val_encodings = NoEncodings
    /\ val_dataset = NewsDataset(val_encodings, val_labels)
    /\ fetched = NoItem
    /\ WeightsIdle /\ MetricsIdle /\ CkptIdle /\ TrainIdle

SpecDataset == InitDataset /\ [][GetItem]_vars

-----------------------------------------------------------------------------
(* Claims about the dataset adapter (SpecDataset) and the script (SpecScript) *)

FetchedLabels == IF fetched.split = "train" THEN train_labels ELSE val_labels
FetchedTexts  == IF fetched.split = "train" THEN train_texts ELSE val_texts

\* C5: for a NewsDataset built from encodings and labels in {-1,0,1},
\* len(dataset) is the number of labels, the label of a returned item is
\* labels[i] + 1 and lies in {0,1,2}, the metrics function's shift by -1 gives
\* labels[i] back, and reading an item changes neither encodings nor labels.
C5_LabelRoundTrip ==
    /\ s_pc = "ready"
          => /\ NewsDataset_len(train_dataset) = Len(train_labels)
             /\ NewsDataset_len(val_dataset) = Len(val_labels)
             /\ train_dataset.labels = train_labels
             /\ val_dataset.labels = val_labels
             /\ train_dataset.encodings = train_encodings
             /\ val_dataset.encodings = val_encodings
    /\ fetched.ok
          => /\ fetched.labels = FetchedLabels[fetched.idx + 1] + 1
             /\ fetched.labels \in {0, 1, 2}
             /\ ShiftBack(fetched.labels) = FetchedLabels[fetched.idx + 1]

\* the second item of a split was read and its label was -1
C5_Witness ==
    /\ s_pc = "ready"
    /\ fetched.ok
    /\ fetched.idx = 1
    /\ FetchedLabels[2] = -1
    /\ fetched.labels = 0

\* C10: in every run, for each split and every index below len(dataset),
\* indexed access is defined and gives the encoding of the i-th text of the
\* split with that text's label + 1: the encodings given to NewsDataset have
\* the length and order of the labels, freshly tokenized or loaded from a cache.
C10_EncodingsMatchLabels ==
    /\ s_pc = "ready"
          => /\ Len(train_dataset.encodings.input_ids) = Len(train_labels)
             /\ Len(val_dataset.encodings.input_ids) = Len(val_labels)
             /\ \A k \in 1..Len(train_labels) :
                   train_dataset.encodings.input_ids[k] = tokenizer(train_texts[k]).input_ids
             /\ \A k \in 1..Len(val_labels) :
                   val_dataset.encodings.input_ids[k] = tokenizer(val_texts[k]).input_ids
    /\ fetched.split # ""
          => /\ fetched.ok
             /\ fetched.input_ids = tokenizer(FetchedTexts[fetched.idx + 1]).input_ids
             /\ fetched.attention_mask = tokenizer(FetchedTexts[fetched.idx + 1]).attention_mask
             /\ fetched.labels = FetchedLabels[fetched.idx + 1] + 1

-----------------------------------------------------------------------------
(* Class weights, lines 80-82.  Numbers that are floats in the program are   *)
(* kept as exact fractions <<numerator, denominator>> in lowest terms.       *)
RECURSIVE GCD(_, _)
GCD(a, b) == IF b = 0 THEN a ELSE GCD(b, a % b)

\* the fraction n/d, d > 0, in lowest terms
Frac(n, d) == LET g == GCD(n, d) IN <<n \div g, d \div g>>

FracAdd(p, q) == Frac(p[1] * q[2] + q[1] * p[2], p[2] * q[2])

Count(y, c) == Cardinality({k \in 1..Len(y) : y[k] = c})

\* classes=np.array([-1, 0, 1])
classes == <<-1, 0, 1>>

\* sklearn's compute_class_weight(class_weight='balanced', classes=cls, y=y):
\* len(y) / (number of classes present in y * count of the class); a class of
\* cls that y lacks raises ValueError
compute_class_weight(cls, y) ==
    LET present == {y[k] : k \in 1..Len(y)}
    IN  IF \E k \in 1..Len(cls) : cls[k] \notin present
        THEN [raised |-> TRUE, weights |-> <<>>]
        ELSE [raised |-> FALSE,
              weights |-> [k \in 1..Len(cls) |->
                              Frac(Len(y), Cardinality(present) * Count(y, cls[k]))]]

InitWeights ==
    /\ fs = [p \in Paths |-> NoFile]
    /\ CacheIdle
    /\ s_pc = "ready"
    /\ train_labels \in SeqsUpTo(Labels, MaxTrainLabels)
    /\ val_labels \in SeqsUpTo(Labels, MaxValLabels)
    /\ train_texts = <<>>
    /\ val_texts = <<>>
    /\ train_encodings = NoEncodings
    /\ val_encodings = NoEncodings
    /\ train_dataset = NoDataset
    /\ val_dataset = NoDataset
    /\ fetched = NoItem
    /\ WeightsIdle /\ MetricsIdle /\ CkptIdle /\ TrainIdle

\* (mutant) the weights are estimated from both splits
ComputeClassWeightsAllLabels ==
    /\ w_pc = "start"
    /\ LET r == compute_class_weight(classes, train_labels \o val_labels)
       IN  /\ class_weights' = r.weights
           /\ w_pc' = IF r.raised THEN "raised" ELSE "done"
    /\ UNCHANGED notWeightVars

\* lines 81-82
ComputeClassWeights ==
    /\ w_pc = "start"
    /\ LET r == compute_class_weight(classes, train_labels)
       IN  /\ class_weights' = r.weights
           /\ w_pc' = IF r.raised THEN "raised" ELSE "done"
    /\ UNCHANGED notWeightVars

NextWeights == ComputeClassWeights

SpecWeights == InitWeights /\ [][NextWeights]_vars

\* C6: with training counts a, b, c >= 1 of the labels -1, 0, 1 the weight
\* vector has three entries in the class order -1, 0, 1, each equal to
\* (a+b+c) / (3 * count(class)) and strictly positive; a strictly smaller count
\* has a strictly larger weight and equal counts have equal weights; the
\* validation labels play no part.
C6_ClassWeights ==
    LET n == Len(train_labels)
        cnt(k) == Count(train_labels, k - 2)
    IN  (w_pc # "start" /\ \A k \in 1..3 : cnt(k) >= 1)
            => /\ w_pc = "done"
               /\ Len(class_weights) = 3
               /\ \A k \in 1..3 :
                     /\ class_weights[k][1] > 0
                     /\ class_weights[k][2] > 0
                     /\ class_weights[k][1] * 3 * cnt(k) = class_weights[k][2] * n
               /\ \A k, j \in 1..3 :
                     /\ cnt(k) < cnt(j) =>
                           class_weights[k][1] * class_weights[j][2]
                               > class_weights[j][1] * class_weights[k][2]
                     /\ cnt(k) = cnt(j) => class_weights[k] = class_weights[j]

\* weights were computed for unequal class counts, with validation labels around
C6_Witness ==
    /\ w_pc = "done"
    /\ Count(train_labels, -1) = 2
    /\ Count(train_labels, 0) = 1
    /\ Count(train_labels, 1) = 1
    /\ Len(val_labels) = 1
    /\ class_weights = <<<<2, 3>>, <<4, 3>>, <<4, 3>>>>

-----------------------------------------------------------------------------
(* compute_metrics, lines 139-144 (the definition in force; 99-104 is the    *)
(* same text)                                                                *)
LogitValues == {0, 1}

\* np.argmax over one row: the first position holding the maximum, from 0
ArgMax(row) ==
    CHOOSE k \in 0..(Len(row) - 1) :
        /\ \A j \in 1..Len(row) : row[j] <= row[k + 1]
        /\ \A j \in 1..k : row[j] < row[k + 1]

\* sklearn's accuracy_score(y_true, y_pred)
accuracy_score(y_true, y_pred) ==
    Frac(Cardinality({k \in 1..Len(y_true) : y_true[k] = y_pred[k]}), Len(y_true))

\* the F1 score of one class that occurs in y_true or y_pred
ClassF1(y_true, y_pred, c) ==
    LET tp == Cardinality({k \in 1..Len(y_true) : y_true[k] = c /\ y_pred[k] = c})
        fp == Cardinality({k \in 1..Len(y_true) : y_true[k] # c /\ y_pred[k] = c})
        fn == Cardinality({k \in 1..Len(y_true) : y_true[k] = c /\ y_pred[k] # c})
    IN  Frac(2 * tp, 2 * tp + fp + fn)

RECURSIVE FracSum(_, _)
FracSum(f, S) ==
    IF S = {} THEN <<0, 1>>
    ELSE LET c == CHOOSE x \in S : TRUE
         IN  FracAdd(f[c], FracSum(f, S \ {c}))

\* sklearn's f1_score(y_true, y_pred, average='macro') with labels left unset:
\* the classes are those that occur in y_true or y_pred
f1_score_macro(y_true, y_pred) ==
    LET present == {y_true[k] : k \in 1..Len(y_true)} \cup {y_pred[k] : k \in 1..Len(y_pred)}
        f == [c \in present |-> ClassF1(y_true, y_pred, c)]
        total == FracSum(f, present)
    IN  Frac(total[1], total[2] * Cardinality(present))

\* (mutant) the predicted class is taken from the last maximum of a row
compute_metrics_last_max(pred) ==
    LET lastmax(row) == CHOOSE k \in 0..(Len(row) - 1) :
                            /\ \A j \in 1..Len(row) : row[j] <= row[k + 1]
                            /\ \A j \in (k + 2)..Len(row) : row[j] < row[k + 1]
        labels == [k \in 1..Len(pred.label_ids) |-> pred.label_ids[k] - 1]
        preds  == [k \in 1..Len(pred.predictions) |-> lastmax(pred.predictions[k]) - 1]
    IN  [accuracy |-> accuracy_score(labels, preds),
         f1       |-> f1_score_macro(labels, preds)]

\* compute_metrics(pred)
compute_metrics(pred) ==
    LET labels == [k \in 1..Len(pred.label_ids) |-> ShiftBack(pred.label_ids[k])]
        preds  == [k \in 1..Len(pred.predictions) |-> ArgMax(pred.predictions[k]) - 1]
    IN  [accuracy |-> accuracy_score(labels, preds),
         f1       |-> f1_score_macro(labels, preds)]

InitMetrics ==
    /\ fs = [p \in Paths |-> NoFile]
    /\ CacheIdle /\ ScriptIdle /\ WeightsIdle /\ CkptIdle /\ TrainIdle
    /\ m_pc = "start"
    /\ \E n \in 1..MaxEval :
          /\ predictions \in [1..n -> [1..3 -> LogitValues]]
          /\ label_ids \in [1..n -> {0, 1, 2}]
    /\ metrics = NoMetrics

\* the trainer hands the logits and label ids of an evaluation to compute_metrics
ComputeMetrics ==
    /\ m_pc = "start"
    /\ metrics' = compute_metrics([predictions |-> predictions, label_ids |-> label_ids])
    /\ m_pc' = "done"
    /\ UNCHANGED <<predictions, label_ids>>
    /\ UNCHANGED notMetricVars

NextMetrics == ComputeMetrics

SpecMetrics == InitMetrics /\ [][NextMetrics]_vars

-----------------------------------------------------------------------------
(* Claims about compute_metrics, checked under SpecMetrics *)

\* the class of example k with the largest logit, the lowest such class on ties
Predicted(k) ==
    LET row == predictions[k]
    IN  IF row[1] >= row[2] /\ row[1] >= row[3] THEN 0
        ELSE IF row[2] >= row[3] THEN 1 ELSE 2

ShiftedClasses == {0, 1, 2}
Occurs(c) == \E k \in 1..Len(label_ids) : label_ids[k] = c \/ Predicted(k) = c

TwoTP(c) == 2 * Cardinality({k \in 1..Len(label_ids) : label_ids[k] = c /\ Predicted(k) = c})
\* 2tp + fp + fn of class c
Denom(c) == Cardinality({k \in 1..Len(label_ids) : label_ids[k] = c})
              + Cardinality({k \in 1..Len(label_ids) : Predicted(k) = c})

\* numerator and denominator of the sum of the F1 scores 2tp/(2tp+fp+fn) of the
\* classes that occur, over the product of their denominators
Den(c) == IF Occurs(c) THEN Denom(c) ELSE 1
Num(c) == IF Occurs(c) THEN TwoTP(c) ELSE 0
F1SumNum == Num(0) * Den(1) * Den(2) + Num(1) * Den(0) * Den(2) + Num(2) * Den(0) * Den(1)
F1SumDen == Den(0) * Den(1) * Den(2)

AccuracyIsRight ==
    metrics.accuracy[1] * Len(label_ids)
        = metrics.accuracy[2] * Cardinality({k \in 1..Len(label_ids) : label_ids[k] = Predicted(k)})

\* C7 as stated: accuracy = (examples whose arg-max class equals the label) / N
\* and f1 = the mean of the per-class F1 over all three classes, a class that
\* occurs in neither labels nor predictions counting with F1 = 0.
C7_Original ==
    m_pc = "done"
        => /\ AccuracyIsRight
           /\ metrics.f1[1] * 3 * F1SumDen = metrics.f1[2] * F1SumNum

\* C7 amended: accuracy = (examples whose arg-max class equals the label) / N
\* and f1 = the unweighted mean of the per-class F1 over the classes that occur
\* in the labels or in the predicted classes.
C7_MetricsValues ==
    m_pc = "done"
        => /\ AccuracyIsRight
           /\ metrics.f1[2] > 0
           /\ metrics.f1[1] * Cardinality({c \in ShiftedClasses : Occurs(c)}) * F1SumDen
                 = metrics.f1[2] * F1SumNum

\* an evaluation in which one class occurs nowhere and one prediction is wrong
C7_Witness ==
    /\ m_pc = "done"
    /\ Len(label_ids) = 2
    /\ Cardinality({c \in ShiftedClasses : Occurs(c)}) = 2
    /\ metrics.accuracy = <<1, 2>>
    /\ metrics.f1 # <<0, 1>>

-----------------------------------------------------------------------------
(* The checkpoint loader, lines 107-117 *)
CkptFiles == {"config.json", "model.safetensors", "optimizer.pt", "rng_state.pth"}
CkptWeights == {"checkpoint-9580", "other-checkpoint"}

\* from_pretrained(checkpoint_path) finds a model it can load
ValidModelState(d) == {"config.json", "model.safetensors"} \subseteq d.files

InitCkpt ==
    /\ fs = [p \in Paths |-> NoFile]
    /\ CacheIdle /\ ScriptIdle /\ WeightsIdle /\ MetricsIdle /\ TrainIdle
    /\ k_pc = "start"
    /\ disk \in {NoDisk} \cup
                [exists : {TRUE}, files : SUBSET CkptFiles, weights : CkptWeights,
                 num_labels : {2, 3}]
    /\ disk_entry = disk
    /\ cuda_available \in BOOLEAN
    /\ model = NoModel

\* (mutant) rng_state.pth is removed first and the weights are not yet loaded
LoadCheckpointAfterPrune ==
    /\ k_pc = "start"
    /\ disk.exists
    /\ disk' = [disk EXCEPT !.files = @ \ {"rng_state.pth"}]
    /\ k_pc' = IF ValidModelState(disk) THEN "loaded" ELSE "failed"
    /\ UNCHANGED <<disk_entry, cuda_available, model>>
    /\ UNCHANGED notCkptVars

\* lines 109-110: the directory exists and the model is loaded from it, or the
\* load raises
LoadCheckpoint ==
    /\ k_pc = "start"
    /\ disk.exists
    /\ IF ValidModelState(disk)
       THEN /\ model' = [weights |-> disk.weights, num_labels |-> disk.num_labels,
                         gradient_checkpointing |-> FALSE, device |-> "cpu"]
            /\ k_pc' = "loaded"
       ELSE /\ model' = model
            /\ k_pc' = "failed"
    /\ UNCHANGED <<disk, disk_entry, cuda_available>>
    /\ UNCHANGED notCkptVars

\* lines 111-113: rng_state.pth is removed when it is there
PruneRngState ==
    /\ k_pc = "loaded"
    /\ disk' = IF "rng_state.pth" \in disk.files
               THEN [disk EXCEPT !.files = @ \ {"rng_state.pth"}]
               ELSE disk
    /\ k_pc' = "model_ready"
    /\ UNCHANGED <<disk_entry, cuda_available, model>>
    /\ UNCHANGED notCkptVars

\* lines 114-115: no such directory, the base model with num_labels=3
LoadBase ==
    /\ k_pc = "start"
    /\ ~disk.exists
    /\ model' = [weights |-> "allenai/longformer-base-4096", num_labels |-> 3,
                 gradient_checkpointing |-> FALSE, device |-> "cpu"]
    /\ k_pc' = "model_ready"
    /\ UNCHANGED <<disk, disk_entry, cuda_available>>
    /\ UNCHANGED notCkptVars

\* line 116
EnableGradientCheckpointing ==
    /\ k_pc = "model_ready"
    /\ model' = [model EXCEPT !.gradient_checkpointing = TRUE]
    /\ k_pc' = "gc_enabled"
    /\ UNCHANGED <<disk, disk_entry, cuda_available>>
    /\ UNCHANGED notCkptVars

\* line 117: the move raises when there is no accelerator
ToCuda ==
    /\ k_pc = "gc_enabled"
    /\ IF cuda_available
       THEN /\ model' = [model EXCEPT !.device = "cuda"]
            /\ k_pc' = "done"
       ELSE /\ model' = model
            /\ k_pc' = "failed"
    /\ UNCHANGED <<disk, disk_entry, cuda_available>>
    /\ UNCHANGED notCkptVars

NextCkpt ==
    \/ LoadCheckpoint
    \/ PruneRngState
    \/ LoadBase
    \/ EnableGradientCheckpointing
    \/ ToCuda

SpecCkpt == InitCkpt /\ [][NextCkpt]_vars

\* C8: when the checkpoint directory exists with a valid model state and
\* rng_state.pth, then after the loader step rng_state.pth is gone, the model
\* weights are the checkpoint's, the load came before the delete and no other
\* file was deleted; when the directory does not exist the base model with 3
\* output classes is instantiated and no file is deleted; in both cases
\* gradient checkpointing is enabled and then the model is moved to the
\* accelerator.
C8_CheckpointLoader ==
    LET full == /\ disk_entry.exists
                /\ {"config.json", "model.safetensors", "rng_state.pth"}
                       \subseteq disk_entry.files
        loaderDone == k_pc \in {"model_ready", "gc_enabled", "done"}
    IN  /\ (full /\ loaderDone)
              => /\ "rng_state.pth" \notin disk.files
                 /\ disk.files = disk_entry.files \ {"rng_state.pth"}
                 /\ model.weights = disk_entry.weights
        /\ (full /\ disk # disk_entry) => model.weights = disk_entry.weights
        /\ (full /\ k_pc = "failed") => (~cuda_available /\ model.gradient_checkpointing)
        /\ (~disk_entry.exists /\ k_pc # "start")
              => /\ model.weights = "allenai/longformer-base-4096"
                 /\ model.num_labels = 3
                 /\ disk = disk_entry
        /\ k_pc = "gc_enabled" => (model.gradient_checkpointing /\ model.device = "cpu")
        /\ k_pc = "done" => (model.gradient_checkpointing /\ model.device = "cuda")
        /\ model.device = "cuda" => model.gradient_checkpointing

\* the loader finished on a directory that held a model, the RNG state and more
C8_Witness ==
    /\ k_pc = "done"
    /\ disk_entry.exists
    /\ disk_entry.files = CkptFiles
    /\ disk.files = CkptFiles \ {"rng_state.pth"}
    /\ model.weights = disk_entry.weights
    /\ model.device = "cuda"

-----------------------------------------------------------------------------
(* The configured training run: TrainingArguments (120-136), the trainer     *)
(* with EarlyStoppingCallback (147-155) and trainer.train() (159).  An       *)
(* epoch's evaluation accuracy is kept as its number of correct examples.    *)
num_train_epochs == 5
early_stopping_patience == 2

InitTrain ==
    /\ fs = [p \in Paths |-> NoFile]
    /\ CacheIdle /\ ScriptIdle /\ WeightsIdle /\ MetricsIdle /\ CkptIdle
    /\ TrainIdle

\* trainer.train() is entered, or the next epoch begins
TrainEpoch ==
    /\ t_pc \in {"start", "next_epoch"}
    /\ epoch < num_train_epochs
    /\ epoch' = epoch + 1
    /\ t_pc' = "evaluate"
    /\ UNCHANGED <<eval_history, best_metric, best_epoch, patience_counter,
                   should_training_stop, saved, best_model_checkpoint, final_model>>
    /\ UNCHANGED notTrainVars

\* (mutant) an accuracy equal to the best so far counts as an improvement
EvaluateEpochTiesImprove ==
    /\ t_pc = "evaluate"
    /\ \E acc \in 0..MaxCorrect :
          LET improved == best_metric = -1 \/ acc >= best_metric
              counter  == IF improved THEN 0 ELSE patience_counter + 1
          IN  /\ eval_history' = Append(eval_history, acc)
              /\ patience_counter' = counter
              /\ should_training_stop' = (counter >= early_stopping_patience)
              /\ IF best_metric = -1 \/ acc > best_metric
                 THEN best_metric' = acc /\ best_epoch' = epoch
                 ELSE UNCHANGED <<best_metric, best_epoch>>
    /\ t_pc' = "save"
    /\ UNCHANGED <<epoch, saved, best_model_checkpoint, final_model>>
    /\ UNCHANGED notTrainVars

\* eval_strategy="epoch": the evaluation at the end of the epoch, the early
\* stopping callback's on_evaluate on its metric (metric_for_best_model =
\* "accuracy", greater is better, threshold 0), and then the trainer's update
\* of the best metric; best_metric = -1 stands for None
EvaluateEpoch ==
    /\ t_pc = "evaluate"
    /\ \E acc \in 0..MaxCorrect :
          LET improved == best_metric = -1 \/ acc > best_metric
              counter  == IF improved THEN 0 ELSE patience_counter + 1
          IN  /\ eval_history' = Append(eval_history, acc)
              /\ patience_counter' = counter
              /\ should_training_stop' = (counter >= early_stopping_patience)
              /\ IF improved
                 THEN best_metric' = acc /\ best_epoch' = epoch
                 ELSE UNCHANGED <<best_metric, best_epoch>>
    /\ t_pc' = "save"
    /\ UNCHANGED <<epoch, saved, best_model_checkpoint, final_model>>
    /\ UNCHANGED notTrainVars

\* save_strategy="epoch": the checkpoint of the epoch is written and, when the
\* epoch holds the best metric, recorded as the best model checkpoint
SaveCheckpoint ==
    /\ t_pc = "save"
    /\ saved' = saved \cup {epoch}
    /\ best_model_checkpoint' = IF best_epoch = epoch THEN epoch
                                ELSE best_model_checkpoint
    /\ t_pc' = IF should_training_stop \/ epoch = num_train_epochs
               THEN "load_best" ELSE "next_epoch"
    /\ UNCHANGED <<epoch, eval_history, best_metric, best_epoch, patience_counter,
                   should_training_stop, final_model>>
    /\ UNCHANGED notTrainVars

\* load_best_model_at_end=True: train() ends by loading the best checkpoint
LoadBestModel ==
    /\ t_pc = "load_best"
    /\ final_model' = best_model_checkpoint
    /\ t_pc' = "done"
    /\ UNCHANGED <<epoch, eval_history, best_metric, best_epoch, patience_counter,
                   should_training_stop, saved, best_model_checkpoint>>
    /\ UNCHANGED notTrainVars

NextTrain ==
    \/ TrainEpoch
    \/ EvaluateEpoch
    \/ SaveCheckpoint
    \/ LoadBestModel

SpecTrain == InitTrain /\ [][NextTrain]_vars

\* the training loop is never suspended: a step that can be taken is taken
SpecTrainFair == SpecTrain /\ WF_vars(NextTrain)

\* the best accuracy among the first k evaluations
RECURSIVE BestOf(_, _)
BestOf(h, k) == IF k = 0 THEN -1
                ELSE IF h[k] > BestOf(h, k - 1) THEN h[k] ELSE BestOf(h, k - 1)

\* evaluation k did not improve on the best accuracy seen before it
NoGain(h, k) == k >= 2 /\ h[k] <= BestOf(h, k - 1)
\* evaluations k-1 and k both did not
TwoNoGains(h, k) == NoGain(h, k) /\ NoGain(h, k - 1)

C9_Shape ==
    /\ epoch <= num_train_epochs
    /\ t_pc \in {"save"} => Len(eval_history) = epoch /\ saved = 1..(epoch - 1)
    /\ t_pc \in {"next_epoch", "load_best", "done"}
          => Len(eval_history) = epoch /\ saved = 1..epoch
    /\ t_pc \in {"next_epoch", "evaluate"}
          => \A k \in 1..Len(eval_history) : ~TwoNoGains(eval_history, k)
    /\ t_pc \in {"load_best", "done"}
          => /\ epoch >= 1
             /\ \A k \in 1..(epoch - 1) : ~TwoNoGains(eval_history, k)
             /\ epoch < num_train_epochs => TwoNoGains(eval_history, epoch)
    /\ t_pc = "done"
          => /\ final_model \in 1..epoch
             /\ eval_history[final_model] = BestOf(eval_history, epoch)

\* C9: the configured run always terminates; it evaluates and saves once at
\* the end of each epoch, runs at most 5 epochs, stops before the 5th epoch
\* ends exactly when 2 consecutive epoch evaluations have failed to improve on
\* the best accuracy seen so far, and ends with the model of the epoch with
\* the best evaluation accuracy.
C9_TrainingRun == <>(t_pc = "done") /\ []C9_Shape

\* a run stopped early, after epoch 4, with the model of epoch 2 selected
C9_Witness ==
    /\ t_pc = "done"
    /\ epoch = 4
    /\ final_model = 2
    /\ eval_history[1] < eval_history[2]

=============================================================================
